---- MODULE Spec2Model ----
(***************************************************************************)
(* Model of version_util.py: three pure functions, inc_patch, inc_minor    *)
(* and inc_major, that take a version string, strip "v" from both ends,    *)
(* split on ".", parse one field with int(), add one and format the        *)
(* result as "v{}.{}.{}".                                                  *)
(*                                                                         *)
(* A Python str is modelled as a sequence of one-character strings, so     *)
(* "v1.2" is <<"v", "1", ".", "2">>.  A call either returns a str or       *)
(* raises ValueError (the spec's ParseError); both are modelled by a       *)
(* record [ok, value].  A Python int has no width; it is modelled by its   *)
(* sign and the decimal numeral of its magnitude, a text of any length.    *)
(*                                                                         *)
(* A character that has no escape in a TLA+ string is named by its code    *)
(* point: "U+000B" is the vertical tab and "U+0663" the Arabic-Indic digit *)
(* three.  Such a name is one character of a str, as "\n" is.              *)
(***************************************************************************)
EXTENDS Integers, Sequences, FiniteSets

VARIABLES
    input,      \* the string the first call was given
    version,    \* the argument of the last call
    result,     \* what the last call returned or raised
    op,         \* the function called last, "none" before the first call
    calls       \* how many calls of each function were made so far

vars == <<input, version, result, op, calls>>

-----------------------------------------------------------------------------
(* Bounds of the model *)

\* Valid inputs draw each component from 0..MaxNum and from BigNums.
MaxNum == 2

\* Components that sit on a digit-width boundary (9 -> 10, 99 -> 100).
BigNums == {9, 99}

\* At most MaxCalls calls are chained, each fed the previous output.
MaxCalls == 3

\* Inputs with a wrong number of fields have 1..MaxFields fields.
MaxFields == 4

\* One field of an input is drawn from every string of at most MaxFieldLen
\* characters of FieldAlphabet.
MaxFieldLen == 3

-----------------------------------------------------------------------------
(* Python str and int primitives *)

\* The ASCII digits, by value: what an int is rendered with.
DigitChars == <<"0", "1", "2", "3", "4", "5", "6", "7", "8", "9">>

\* The other characters int() reads as decimal digits (the Unicode category
\* Nd), by value: UnicodeDigits[d + 1] holds the digits of value d.
UnicodeDigits ==
    <<
     {"U+0660", "U+06F0", "U+07C0", "U+0966", "U+09E6", "U+0A66", "U+0AE6",
      "U+0B66", "U+0BE6", "U+0C66", "U+0CE6", "U+0D66", "U+0DE6", "U+0E50",
      "U+0ED0", "U+0F20", "U+1040", "U+1090", "U+17E0", "U+1810", "U+1946",
      "U+19D0", "U+1A80", "U+1A90", "U+1B50", "U+1BB0", "U+1C40", "U+1C50",
      "U+A620", "U+A8D0", "U+A900", "U+A9D0", "U+A9F0", "U+AA50", "U+ABF0",
      "U+FF10", "U+104A0", "U+10D30", "U+11066", "U+110F0", "U+11136",
      "U+111D0", "U+112F0", "U+11450", "U+114D0", "U+11650", "U+116C0",
      "U+11730", "U+118E0", "U+11950", "U+11C50", "U+11D50", "U+11DA0",
      "U+16A60", "U+16AC0", "U+16B50", "U+1D7CE", "U+1D7D8", "U+1D7E2",
      "U+1D7EC", "U+1D7F6", "U+1E140", "U+1E2F0", "U+1E950", "U+1FBF0"},
     {"U+0661", "U+06F1", "U+07C1", "U+0967", "U+09E7", "U+0A67", "U+0AE7",
      "U+0B67", "U+0BE7", "U+0C67", "U+0CE7", "U+0D67", "U+0DE7", "U+0E51",
      "U+0ED1", "U+0F21", "U+1041", "U+1091", "U+17E1", "U+1811", "U+1947",
      "U+19D1", "U+1A81", "U+1A91", "U+1B51", "U+1BB1", "U+1C41", "U+1C51",
      "U+A621", "U+A8D1", "U+A901", "U+A9D1", "U+A9F1", "U+AA51", "U+ABF1",
      "U+FF11", "U+104A1", "U+10D31", "U+11067", "U+110F1", "U+11137",
      "U+111D1", "U+112F1", "U+11451", "U+114D1", "U+11651", "U+116C1",
      "U+11731", "U+118E1", "U+11951", "U+11C51", "U+11D51", "U+11DA1",
      "U+16A61", "U+16AC1", "U+16B51", "U+1D7CF", "U+1D7D9", "U+1D7E3",
      "U+1D7ED", "U+1D7F7", "U+1E141", "U+1E2F1", "U+1E951", "U+1FBF1"},
     {"U+0662", "U+06F2", "U+07C2", "U+0968", "U+09E8", "U+0A68", "U+0AE8",
      "U+0B68", "U+0BE8", "U+0C68", "U+0CE8", "U+0D68", "U+0DE8", "U+0E52",
      "U+0ED2", "U+0F22", "U+1042", "U+1092", "U+17E2", "U+1812", "U+1948",
      "U+19D2", "U+1A82", "U+1A92", "U+1B52", "U+1BB2", "U+1C42", "U+1C52",
      "U+A622", "U+A8D2", "U+A902", "U+A9D2", "U+A9F2", "U+AA52", "U+ABF2",
      "U+FF12", "U+104A2", "U+10D32", "U+11068", "U+110F2", "U+11138",
      "U+111D2", "U+112F2", "U+11452", "U+114D2", "U+11652", "U+116C2",
      "U+11732", "U+118E2", "U+11952", "U+11C52", "U+11D52", "U+11DA2",
      "U+16A62", "U+16AC2", "U+16B52", "U+1D7D0", "U+1D7DA", "U+1D7E4",
      "U+1D7EE", "U+1D7F8", "U+1E142", "U+1E2F2", "U+1E952", "U+1FBF2"},
     {"U+0663", "U+06F3", "U+07C3", "U+0969", "U+09E9", "U+0A69", "U+0AE9",
      "U+0B69", "U+0BE9", "U+0C69", "U+0CE9", "U+0D69", "U+0DE9", "U+0E53",
      "U+0ED3", "U+0F23", "U+1043", "U+1093", "U+17E3", "U+1813", "U+1949",
      "U+19D3", "U+1A83", "U+1A93", "U+1B53", "U+1BB3", "U+1C43", "U+1C53",
      "U+A623", "U+A8D3", "U+A903", "U+A9D3", "U+A9F3", "U+AA53", "U+ABF3",
      "U+FF13", "U+104A3", "U+10D33", "U+11069", "U+110F3", "U+11139",
      "U+111D3", "U+112F3", "U+11453", "U+114D3", "U+11653", "U+116C3",
      "U+11733", "U+118E3", "U+11953", "U+11C53", "U+11D53", "U+11DA3",
      "U+16A63", "U+16AC3", "U+16B53", "U+1D7D1", "U+1D7DB", "U+1D7E5",
      "U+1D7EF", "U+1D7F9", "U+1E143", "U+1E2F3", "U+1E953", "U+1FBF3"},
     {"U+0664", "U+06F4", "U+07C4", "U+096A", "U+09EA", "U+0A6A", "U+0AEA",
      "U+0B6A", "U+0BEA", "U+0C6A", "U+0CEA", "U+0D6A", "U+0DEA", "U+0E54",
      "U+0ED4", "U+0F24", "U+1044", "U+1094", "U+17E4", "U+1814", "U+194A",
      "U+19D4", "U+1A84", "U+1A94", "U+1B54", "U+1BB4", "U+1C44", "U+1C54",
      "U+A624", "U+A8D4", "U+A904", "U+A9D4", "U+A9F4", "U+AA54", "U+ABF4",
      "U+FF14", "U+104A4", "U+10D34", "U+1106A", "U+110F4", "U+1113A",
      "U+111D4", "U+112F4", "U+11454", "U+114D4", "U+11654", "U+116C4",
      "U+11734", "U+118E4", "U+11954", "U+11C54", "U+11D54", "U+11DA4",
      "U+16A64", "U+16AC4", "U+16B54", "U+1D7D2", "U+1D7DC", "U+1D7E6",
      "U+1D7F0", "U+1D7FA", "U+1E144", "U+1E2F4", "U+1E954", "U+1FBF4"},
     {"U+0665", "U+06F5", "U+07C5", "U+096B", "U+09EB", "U+0A6B", "U+0AEB",
      "U+0B6B", "U+0BEB", "U+0C6B", "U+0CEB", "U+0D6B", "U+0DEB", "U+0E55",
      "U+0ED5", "U+0F25", "U+1045", "U+1095", "U+17E5", "U+1815", "U+194B",
      "U+19D5", "U+1A85", "U+1A95", "U+1B55", "U+1BB5", "U+1C45", "U+1C55",
      "U+A625", "U+A8D5", "U+A905", "U+A9D5", "U+A9F5", "U+AA55", "U+ABF5",
      "U+FF15", "U+104A5", "U+10D35", "U+1106B", "U+110F5", "U+1113B",
      "U+111D5", "U+112F5", "U+11455", "U+114D5", "U+11655", "U+116C5",
      "U+11735", "U+118E5", "U+11955", "U+11C55", "U+11D55", "U+11DA5",
      "U+16A65", "U+16AC5", "U+16B55", "U+1D7D3", "U+1D7DD", "U+1D7E7",
      "U+1D7F1", "U+1D7FB", "U+1E145", "U+1E2F5", "U+1E955", "U+1FBF5"},
     {"U+0666", "U+06F6", "U+07C6", "U+096C", "U+09EC", "U+0A6C", "U+0AEC",
      "U+0B6C", "U+0BEC", "U+0C6C", "U+0CEC", "U+0D6C", "U+0DEC", "U+0E56",
      "U+0ED6", "U+0F26", "U+1046", "U+1096", "U+17E6", "U+1816", "U+194C",
      "U+19D6", "U+1A86", "U+1A96", "U+1B56", "U+1BB6", "U+1C46", "U+1C56",
      "U+A626", "U+A8D6", "U+A906", "U+A9D6", "U+A9F6", "U+AA56", "U+ABF6",
      "U+FF16", "U+104A6", "U+10D36", "U+1106C", "U+110F6", "U+1113C",
      "U+111D6", "U+112F6", "U+11456", "U+114D6", "U+11656", "U+116C6",
      "U+11736", "U+118E6", "U+11956", "U+11C56", "U+11D56", "U+11DA6",
      "U+16A66", "U+16AC6", "U+16B56", "U+1D7D4", "U+1D7DE", "U+1D7E8",
      "U+1D7F2", "U+1D7FC", "U+1E146", "U+1E2F6", "U+1E956", "U+1FBF6"},
     {"U+0667", "U+06F7", "U+07C7", "U+096D", "U+09ED", "U+0A6D", "U+0AED",
      "U+0B6D", "U+0BED", "U+0C6D", "U+0CED", "U+0D6D", "U+0DED", "U+0E57",
      "U+0ED7", "U+0F27", "U+1047", "U+1097", "U+17E7", "U+1817", "U+194D",
      "U+19D7", "U+1A87", "U+1A97", "U+1B57", "U+1BB7", "U+1C47", "U+1C57",
      "U+A627", "U+A8D7", "U+A907", "U+A9D7", "U+A9F7", "U+AA57", "U+ABF7",
      "U+FF17", "U+104A7", "U+10D37", "U+1106D", "U+110F7", "U+1113D",
      "U+111D7", "U+112F7", "U+11457", "U+114D7", "U+11657", "U+116C7",
      "U+11737", "U+118E7", "U+11957", "U+11C57", "U+11D57", "U+11DA7",
      "U+16A67", "U+16AC7", "U+16B57", "U+1D7D5", "U+1D7DF", "U+1D7E9",
      "U+1D7F3", "U+1D7FD", "U+1E147", "U+1E2F7", "U+1E957", "U+1FBF7"},
     {"U+0668", "U+06F8", "U+07C8", "U+096E", "U+09EE", "U+0A6E", "U+0AEE",
      "U+0B6E", "U+0BEE", "U+0C6E", "U+0CEE", "U+0D6E", "U+0DEE", "U+0E58",
      "U+0ED8", "U+0F28", "U+1048", "U+1098", "U+17E8", "U+1818", "U+194E",
      "U+19D8", "U+1A88", "U+1A98", "U+1B58", "U+1BB8", "U+1C48", "U+1C58",
      "U+A628", "U+A8D8", "U+A908", "U+A9D8", "U+A9F8", "U+AA58", "U+ABF8",
      "U+FF18", "U+104A8", "U+10D38", "U+1106E", "U+110F8", "U+1113E",
      "U+111D8", "U+112F8", "U+11458", "U+114D8", "U+11658", "U+116C8",
      "U+11738", "U+118E8", "U+11958", "U+11C58", "U+11D58", "U+11DA8",
      "U+16A68", "U+16AC8", "U+16B58", "U+1D7D6", "U+1D7E0", "U+1D7EA",
      "U+1D7F4", "U+1D7FE", "U+1E148", "U+1E2F8", "U+1E958", "U+1FBF8"},
     {"U+0669", "U+06F9", "U+07C9", "U+096F", "U+09EF", "U+0A6F", "U+0AEF",
      "U+0B6F", "U+0BEF", "U+0C6F", "U+0CEF", "U+0D6F", "U+0DEF", "U+0E59",
      "U+0ED9", "U+0F29", "U+1049", "U+1099", "U+17E9", "U+1819", "U+194F",
      "U+19D9", "U+1A89", "U+1A99", "U+1B59", "U+1BB9", "U+1C49", "U+1C59",
      "U+A629", "U+A8D9", "U+A909", "U+A9D9", "U+A9F9", "U+AA59", "U+ABF9",
      "U+FF19", "U+104A9", "U+10D39", "U+1106F", "U+110F9", "U+1113F",
      "U+111D9", "U+112F9", "U+11459", "U+114D9", "U+11659", "U+116C9",
      "U+11739", "U+118E9", "U+11959", "U+11C59", "U+11D59", "U+11DA9",
      "U+16A69", "U+16AC9", "U+16B59", "U+1D7D7", "U+1D7E1", "U+1D7EB",
      "U+1D7F5", "U+1D7FF", "U+1E149", "U+1E2F9", "U+1E959", "U+1FBF9"}
    >>

IsDigit(c) ==
    \E d \in 1..10 : c = DigitChars[d] \/ c \in UnicodeDigits[d]

DigitValue(c) ==
    (CHOOSE d \in 1..10 : c = DigitChars[d] \/ c \in UnicodeDigits[d]) - 1

\* The characters int() skips around a number: the ASCII whitespace and the
\* Unicode spaces.  (U+001C..U+001F are whitespace to str.isspace() but not
\* to int().)
Whitespace ==
    {"\t", "\n", "U+000B", "\f", "\r", " ", "U+0085", "U+00A0", "U+1680",
     "U+2000", "U+2001", "U+2002", "U+2003", "U+2004", "U+2005", "U+2006",
     "U+2007", "U+2008", "U+2009", "U+200A", "U+2028", "U+2029", "U+202F",
     "U+205F", "U+3000"}

\* sys.get_int_max_str_digits(): CPython converts no str of more digits to
\* an int, and no int of more digits to a str.
MaxStrDigits == 4300

RECURSIVE lstrip(_, _)
lstrip(s, chars) ==
    IF s # <<>> /\ Head(s) \in chars THEN lstrip(Tail(s), chars) ELSE s

RECURSIVE rstrip(_, _)
rstrip(s, chars) ==
    IF s # <<>> /\ s[Len(s)] \in chars
    THEN rstrip(SubSeq(s, 1, Len(s) - 1), chars)
    ELSE s

\* str.strip(chars): every leading and every trailing character that is in
\* chars is removed; the interior is left alone.
strip(s, chars) == rstrip(lstrip(s, chars), chars)

\* str.split(sep) with a one-character separator: empty fields are kept and
\* a string without the separator is one field.
RECURSIVE split(_, _)
split(s, sep) ==
    IF \A i \in 1..Len(s) : s[i] # sep
    THEN <<s>>
    ELSE LET i == CHOOSE k \in 1..Len(s) :
                      s[k] = sep /\ \A j \in 1..(k - 1) : s[j] # sep
         IN  <<SubSeq(s, 1, i - 1)>> \o split(SubSeq(s, i + 1, Len(s)), sep)

\* The numeral of the number that a run of digits writes: its ASCII digits
\* without leading zeros.
ToNumeral(digits) ==
    LET ascii == [i \in 1..Len(digits) |->
                     DigitChars[DigitValue(digits[i]) + 1]]
        first == CHOOSE i \in 1..Len(digits) :
                     /\ i = Len(digits) \/ ascii[i] # "0"
                     /\ \A k \in 1..(i - 1) : ascii[k] = "0"
    IN  SubSeq(ascii, first, Len(digits))

\* The numeral of n + 1 from the numeral of n: the trailing nines turn to
\* zeros and the digit before them grows by one.
Succ(f) ==
    LET j == CHOOSE i \in 0..Len(f) :
                 /\ i = 0 \/ f[i] # "9"
                 /\ \A k \in (i + 1)..Len(f) : f[k] = "9"
    IN  IF j = 0 THEN <<"1">> \o [i \in 1..Len(f) |-> "0"]
        ELSE SubSeq(f, 1, j - 1) \o <<DigitChars[DigitValue(f[j]) + 2]>>
             \o [i \in 1..(Len(f) - j) |-> "0"]

\* The numeral of n - 1 from the numeral of n > 0: the trailing zeros turn
\* to nines and the digit before them shrinks by one.
Pred(f) ==
    LET j == CHOOSE i \in 1..Len(f) :
                 /\ f[i] # "0"
                 /\ \A k \in (i + 1)..Len(f) : f[k] = "0"
        g == SubSeq(f, 1, j - 1) \o <<DigitChars[DigitValue(f[j])]>>
             \o [i \in 1..(Len(f) - j) |-> "9"]
    IN  IF Len(f) > 1 /\ g[1] = "0" THEN Tail(g) ELSE g

\* A Python int: whether it is negative, and the numeral of its magnitude.
PyInt(neg, digits) == [neg |-> neg /\ digits # <<"0">>, digits |-> digits]

\* n + 1
AddOne(n) ==
    IF n.neg THEN PyInt(TRUE, Pred(n.digits))
    ELSE PyInt(FALSE, Succ(n.digits))

\* Mutant of int: text after the number is ignored, as C's atoi does.
int_ignores_trailing_text(s) ==
    LET t == lstrip(s, Whitespace)
        signed == t # <<>> /\ Head(t) \in {"+", "-"}
        body == IF signed THEN Tail(t) ELSE t
        others == {i \in 1..Len(body) : ~IsDigit(body[i])}
        n == IF others = {} THEN Len(body)
             ELSE (CHOOSE i \in others : \A k \in others : i <= k) - 1
    IN  IF 0 < n /\ n <= MaxStrDigits
        THEN [ok |-> TRUE,
              value |-> PyInt(Head(t) = "-", ToNumeral(SubSeq(body, 1, n)))]
        ELSE [ok |-> FALSE, value |-> PyInt(FALSE, <<"0">>)]

\* int(s): surrounding whitespace is ignored, one sign is allowed, and the
\* digits may be grouped by single underscores; anything else raises
\* ValueError (ok = FALSE), and so does a number of more than MaxStrDigits
\* digits, leading zeros counted.
int(s) ==
    LET t == strip(s, Whitespace)
        signed == t # <<>> /\ Head(t) \in {"+", "-"}
        body == IF signed THEN Tail(t) ELSE t
        wellformed ==
            /\ body # <<>>
            /\ IsDigit(body[1])
            /\ IsDigit(body[Len(body)])
            /\ \A i \in 1..Len(body) :
                   \/ IsDigit(body[i])
                   \/ body[i] = "_" /\ IsDigit(body[i - 1])
        digits == SelectSeq(body, IsDigit)
    IN  IF wellformed /\ Len(digits) <= MaxStrDigits
        THEN [ok |-> TRUE,
              value |-> PyInt(Head(t) = "-", ToNumeral(digits))]
        ELSE [ok |-> FALSE, value |-> PyInt(FALSE, <<"0">>)]

\* How "{}".format renders an int: decimal, "-" for a negative number, no
\* padding; an int of more than MaxStrDigits digits raises ValueError.
str(n) ==
    IF Len(n.digits) > MaxStrDigits THEN [ok |-> FALSE, value |-> <<>>]
    ELSE [ok |-> TRUE,
          value |-> IF n.neg THEN <<"-">> \o n.digits ELSE n.digits]

\* Mutant of format: the "v" is not re-added.
format_no_prefix(major, minor, patch) ==
    major \o <<".">> \o minor \o <<".">> \o patch

\* "v{}.{}.{}".format(major, minor, patch), the three arguments as text.
format(major, minor, patch) ==
    <<"v">> \o major \o <<".">> \o minor \o <<".">> \o patch

Return(s) == [ok |-> TRUE, value |-> s]

ValueError == [ok |-> FALSE, value |-> <<>>]

\* Every character of chars removed from s, wherever it stands.
RECURSIVE RemoveAll(_, _)
RemoveAll(s, chars) ==
    IF s = <<>> THEN <<>>
    ELSE (IF Head(s) \in chars THEN <<>> ELSE <<Head(s)>>)
         \o RemoveAll(Tail(s), chars)

\* Mutants of fields: whitespace around the input is stripped first; only
\* the trailing "v" is stripped; every "v" is removed, not only the leading
\* and trailing ones.
fields_strips_whitespace(v) ==
    split(strip(strip(v, Whitespace), {"v"}), ".")

fields_keeps_leading_v(v) == split(rstrip(v, {"v"}), ".")

fields_removes_every_v(v) == split(RemoveAll(v, {"v"}), ".")

\* major, minor, patch = version.strip("v").split('.')
fields(v) == split(strip(v, {"v"}), ".")

-----------------------------------------------------------------------------
(* The three functions *)

\* Mutants of inc_patch: one that keeps a single digit of the new patch, and
\* one that renders all three fields as integers.
inc_patch_single_digit(v) ==
    LET f == fields(v) IN
    IF Len(f) # 3 THEN ValueError
    ELSE LET patch == int(f[3]) IN
         IF ~patch.ok THEN ValueError
         ELSE LET next == AddOne(patch.value).digits
                  text == str(PyInt(FALSE, <<next[Len(next)]>>))
              IN
              IF ~text.ok THEN ValueError
              ELSE Return(format(f[1], f[2], text.value))

inc_patch_renumbers_all(v) ==
    LET f == fields(v) IN
    IF Len(f) # 3 THEN ValueError
    ELSE LET major == int(f[1])
             minor == int(f[2])
             patch == int(f[3])
         IN  IF ~major.ok \/ ~minor.ok \/ ~patch.ok THEN ValueError
             ELSE Return(format(str(major.value).value, str(minor.value).value,
                                str(AddOne(patch.value)).value))

inc_patch(v) ==
    LET f == fields(v) IN
    IF Len(f) # 3 THEN ValueError
    ELSE LET patch == int(f[3]) IN
         IF ~patch.ok THEN ValueError
         ELSE LET text == str(AddOne(patch.value)) IN
              IF ~text.ok THEN ValueError
              ELSE Return(format(f[1], f[2], text.value))

\* Mutant of inc_minor: the patch is reset, as semantic versioning has it.
inc_minor_resets_patch(v) ==
    LET f == fields(v) IN
    IF Len(f) # 3 THEN ValueError
    ELSE LET minor == int(f[2]) IN
         IF ~minor.ok THEN ValueError
         ELSE LET text == str(AddOne(minor.value)) IN
              IF ~text.ok THEN ValueError
              ELSE Return(format(f[1], text.value, <<"0">>))

inc_minor(v) ==
    LET f == fields(v) IN
    IF Len(f) # 3 THEN ValueError
    ELSE LET minor == int(f[2]) IN
         IF ~minor.ok THEN ValueError
         ELSE LET text == str(AddOne(minor.value)) IN
              IF ~text.ok THEN ValueError
              ELSE Return(format(f[1], text.value, f[3]))

\* Mutants of inc_major: one that resets minor and patch, as semantic
\* versioning has it, and one that ignores fields after the third.
inc_major_resets_lower(v) ==
    LET f == fields(v) IN
    IF Len(f) # 3 THEN ValueError
    ELSE LET major == int(f[1]) IN
         IF ~major.ok THEN ValueError
         ELSE LET text == str(AddOne(major.value)) IN
              IF ~text.ok THEN ValueError
              ELSE Return(format(text.value, <<"0">>, <<"0">>))

inc_major_ignores_extra(v) ==
    LET f == fields(v) IN
    IF Len(f) < 3 THEN ValueError
    ELSE LET major == int(f[1]) IN
         IF ~major.ok THEN ValueError
         ELSE LET text == str(AddOne(major.value)) IN
              IF ~text.ok THEN ValueError
              ELSE Return(format(text.value, f[2], f[3]))

inc_major(v) ==
    LET f == fields(v) IN
    IF Len(f) # 3 THEN ValueError
    ELSE LET major == int(f[1]) IN
         IF ~major.ok THEN ValueError
         ELSE LET text == str(AddOne(major.value)) IN
              IF ~text.ok THEN ValueError
              ELSE Return(format(text.value, f[2], f[3]))

\* The dispatch table given to fire.Fire.
Apply(name, v) ==
    CASE name = "inc-patch" -> inc_patch(v)
      [] name = "inc-minor" -> inc_minor(v)
      [] name = "inc-major" -> inc_major(v)

-----------------------------------------------------------------------------
(* Inputs *)

Dot == <<".">>

Nums == (0..MaxNum) \cup BigNums

\* The numeral of a small number.
RECURSIVE Numeral(_)
Numeral(n) ==
    IF n < 10 THEN <<DigitChars[n + 1]>>
    ELSE Numeral(n \div 10) \o <<DigitChars[(n % 10) + 1]>>

\* What may precede and follow a version: nothing, the prefix, whitespace.
Leads == {<<>>, <<"v">>, <<"v", "v">>, <<" ">>, <<" ", "v">>, <<"\t", "v">>}

Trails == {<<>>, <<" ">>, <<"\n">>, <<"v">>}

\* a.b.c with natural components, wrapped in a lead and a trail.
WrappedInputs ==
    {lead \o Numeral(a) \o Dot \o Numeral(b) \o Dot \o Numeral(c) \o trail :
        lead \in Leads, trail \in Trails, a \in Nums, b \in Nums, c \in Nums}

\* Fields that are not plain naturals.
FieldTexts ==
    {<<"0", "1">>, <<"0", "2">>, <<"0", "0", "3">>, <<"x">>, <<"-", "1">>,
     <<"+", "9">>, <<"1", "v">>, <<"v", "2">>, <<"U+FF11", "U+0663">>,
     <<"U+00A0", "7", "\r">>, <<>>}

TextInputs ==
    {lead \o f1 \o Dot \o f2 \o Dot \o f3 :
        lead \in {<<>>, <<"v">>},
        f1 \in FieldTexts, f2 \in FieldTexts, f3 \in FieldTexts}

FieldAlphabet == {"0", "1", "U+0663", "x", "v", " ", "\n", "-", "+", "_"}

AnyField == UNION {[1..n -> FieldAlphabet] : n \in 0..MaxFieldLen}

\* One arbitrary field in each of the three positions, the other two plain.
OneFieldInputs ==
    {t \o <<".", "2", ".", "3">> : t \in AnyField}
    \cup {<<"1", ".">> \o t \o <<".", "3">> : t \in AnyField}
    \cup {<<"1", ".", "2", ".">> \o t : t \in AnyField}

RECURSIVE Join(_)
Join(fs) == IF Len(fs) = 1 THEN fs[1] ELSE fs[1] \o Dot \o Join(Tail(fs))

\* Any number of fields from one to MaxFields, and the empty string.
ArityInputs ==
    {lead \o Join(fs) :
        lead \in {<<>>, <<"v">>},
        fs \in UNION {[1..n -> {<<"1">>, <<"x">>, <<>>}] : n \in 1..MaxFields}}

\* The inputs the specification names.
ExampleInputs ==
    {<<"v", "3", ".", "4", ".", "5">>,
     <<"v", "1", ".", "2", ".", "9">>,
     <<"v", "1", ".", "2", ".", "3">>,
     <<"1", ".", "2", ".", "3">>,
     <<"v", "1", ".", "2", ".", "3", " ">>,
     <<"v", "1", ".", "2", ".", "3", "\n">>,
     <<" ", "v", "1", ".", "2", ".", "3">>,
     <<"v", "0", "1", ".", "0", "2", ".", "0", "0", "3">>,
     <<"v", "1", ".", "2">>,
     <<"v", "1", ".", "2", ".", "3", ".", "4">>,
     <<"v", "1", ".", "2", ".", "x">>,
     <<"v", "1", ".", "2", ".", "4", "2", "9", "4", "9", "6", "7", "2", "9",
       "5">>,
     <<"v", "9", "9", "9", "9", "9", "9", "9", "9", "9", "9", "9", ".", "2",
       ".", "3">>,
     <<"v", "1", ".", "v", "2", ".", "3">>}

\* Components at the limit of int() and of the rendering: one digit more
\* than int() converts, the longest number whose successor has one digit
\* too many to render, and a number of MaxStrDigits digits that has none.
TooLong == [i \in 1..(MaxStrDigits + 1) |-> "1"]

LongestNines == [i \in 1..MaxStrDigits |-> "9"]

Longest == [i \in 1..MaxStrDigits |-> "1"]

\* Versions with such a component in each of the three positions.
LongInputs ==
    UNION {{<<"v">> \o long \o <<".", "2", ".", "3">>,
            <<"v", "1", ".">> \o long \o <<".", "3">>,
            <<"v", "1", ".", "2", ".">> \o long,
            <<"1", ".", "2", ".">> \o long} :
           long \in {TooLong, LongestNines, Longest}}

Inputs ==
    WrappedInputs \cup TextInputs \cup OneFieldInputs \cup ArityInputs
    \cup ExampleInputs \cup LongInputs

-----------------------------------------------------------------------------
(* The state machine: a first call on the input, then calls chained on the *)
(* previous output for as long as they succeed.                            *)

\* The command names of the table given to fire.Fire.
Commands == {"inc-patch", "inc-minor", "inc-major"}

NoCalls == [name \in Commands |-> 0]

\* Before the first call, result holds the input: it is what the first call
\* is given, as every later call is given the output before it.
Init ==
    /\ input \in Inputs
    /\ version = input
    /\ result = Return(input)
    /\ op = "none"
    /\ calls = NoCalls

\* A call is possible while the chain has not failed and is not too long.
CanCall ==
    /\ result.ok
    /\ calls["inc-patch"] + calls["inc-minor"] + calls["inc-major"] < MaxCalls

IncPatch ==
    /\ CanCall
    /\ version' = result.value
    /\ result' = inc_patch(result.value)
    /\ op' = "inc-patch"
    /\ calls' = [calls EXCEPT !["inc-patch"] = @ + 1]
    /\ UNCHANGED input

IncMinor ==
    /\ CanCall
    /\ version' = result.value
    /\ result' = inc_minor(result.value)
    /\ op' = "inc-minor"
    /\ calls' = [calls EXCEPT !["inc-minor"] = @ + 1]
    /\ UNCHANGED input

IncMajor ==
    /\ CanCall
    /\ version' = result.value
    /\ result' = inc_major(result.value)
    /\ op' = "inc-major"
    /\ calls' = [calls EXCEPT !["inc-major"] = @ + 1]
    /\ UNCHANGED input

Next == IncPatch \/ IncMinor \/ IncMajor

Spec == Init /\ [][Next]_vars

-----------------------------------------------------------------------------
(* Vocabulary of the properties *)

IsPrefix(p, s) == Len(p) <= Len(s) /\ SubSeq(s, 1, Len(p)) = p

IsSuffix(q, s) ==
    Len(q) <= Len(s) /\ SubSeq(s, Len(s) - Len(q) + 1, Len(s)) = q

CountOf(s, c) == Cardinality({i \in 1..Len(s) : s[i] = c})

IsAsciiDigit(c) == \E d \in 1..10 : DigitChars[d] = c

\* The decimal text of a natural number: ASCII digits without padding.
IsNumeral(f) ==
    /\ f # <<>>
    /\ \A i \in 1..Len(f) : IsAsciiDigit(f[i])
    /\ Len(f) > 1 => f[1] # "0"

\* v{a}.{b}.{c}, the three components as text.
VersionText(a, b, c) == <<"v">> \o a \o Dot \o b \o Dot \o c

\* The triples <<a, b, c>> of numerals with s = v{a}.{b}.{c}: one triple
\* when s has that form, none when it does not.
Parts(s) ==
    IF s = <<>> \/ Head(s) # "v" \/ CountOf(s, ".") # 2 THEN {}
    ELSE LET dots == {k \in 1..Len(s) : s[k] = "."}
             i == CHOOSE k \in dots : \A d \in dots : k <= d
             j == CHOOSE k \in dots : \A d \in dots : d <= k
             major == SubSeq(s, 2, i - 1)
             minor == SubSeq(s, i + 1, j - 1)
             patch == SubSeq(s, j + 1, Len(s))
         IN  IF IsNumeral(major) /\ IsNumeral(minor) /\ IsNumeral(patch)
             THEN {<<major, minor, patch>>}
             ELSE {}

\* The numeral of n + k from the numeral of n.
RECURSIVE Plus(_, _)
Plus(f, k) == IF k = 0 THEN f ELSE Plus(Succ(f), k - 1)

\* A numeral CPython converts to an int and back.
Fits(f) == Len(f) <= MaxStrDigits

\* The text without its "v" prefix, and with it.
Bare(s) == IF s # <<>> /\ Head(s) = "v" THEN Tail(s) ELSE s

Prefixed(s) == <<"v">> \o Bare(s)

Called == op # "none"

\* The position of the field each function increments.
Target(name) ==
    CASE name = "inc-major" -> 1
      [] name = "inc-minor" -> 2
      [] name = "inc-patch" -> 3

\* The string between its leading and its trailing "v" characters.
Core(s) ==
    LET first == CHOOSE i \in 1..(Len(s) + 1) :
                     /\ i <= Len(s) => s[i] # "v"
                     /\ \A k \in 1..(i - 1) : s[k] = "v"
        last == CHOOSE j \in 0..Len(s) :
                    /\ j >= 1 => s[j] # "v"
                    /\ \A k \in (j + 1)..Len(s) : s[k] = "v"
    IN  SubSeq(s, first, last)

-----------------------------------------------------------------------------
(* Properties *)

\* C1, as stated: inc_patch on v{a}.{b}.{c}, with a, b, c naturals of any
\* number of digits, returns exactly v{a}.{b}.{c+1}: the patch grows by one
\* with no digit-width limit, and major and minor are unchanged.
C1_PatchIncrementedAnyWidth ==
    op = "inc-patch" =>
        \A t \in Parts(version) :
            result = Return(VersionText(t[1], t[2], Succ(t[3])))

\* C1, amended: inc_patch on v{a}.{b}.{c} returns exactly v{a}.{b}.{c+1},
\* past any digit width (v1.2.9 gives v1.2.10) up to MaxStrDigits digits:
\* when c or c+1 has more digits, the call fails with a ParseError.
C1_PatchIncremented ==
    op = "inc-patch" =>
        \A t \in Parts(version) :
            result = IF Fits(t[3]) /\ Fits(Succ(t[3]))
                     THEN Return(VersionText(t[1], t[2], Succ(t[3])))
                     ELSE ValueError

C1_Witness ==
    /\ op = "inc-patch"
    /\ version = <<"v", "1", ".", "2", ".", "9">>
    /\ result = Return(<<"v", "1", ".", "2", ".", "1", "0">>)

\* C2, as stated: inc_major on v{a}.{b}.{c}, for all naturals a, b, c,
\* returns exactly v{a+1}.{b}.{c}: minor and patch are kept, not reset to 0.
C2_MajorIncrementedAnyWidth ==
    op = "inc-major" =>
        \A t \in Parts(version) :
            result = Return(VersionText(Succ(t[1]), t[2], t[3]))

\* C2, amended: inc_major on v{a}.{b}.{c} returns exactly v{a+1}.{b}.{c}
\* (v3.4.5 gives v4.4.5) when a and a+1 have at most MaxStrDigits digits,
\* and fails with a ParseError when one of them has more.
C2_MajorIncremented ==
    op = "inc-major" =>
        \A t \in Parts(version) :
            result = IF Fits(t[1]) /\ Fits(Succ(t[1]))
                     THEN Return(VersionText(Succ(t[1]), t[2], t[3]))
                     ELSE ValueError

C2_Witness ==
    /\ op = "inc-major"
    /\ version = <<"v", "3", ".", "4", ".", "5">>
    /\ result = Return(<<"v", "4", ".", "4", ".", "5">>)

\* C3, as stated: inc_minor on v{a}.{b}.{c}, for all naturals a, b, c,
\* returns exactly v{a}.{b+1}.{c}: major and patch are kept, the patch is
\* not reset to 0.
C3_MinorIncrementedAnyWidth ==
    op = "inc-minor" =>
        \A t \in Parts(version) :
            result = Return(VersionText(t[1], Succ(t[2]), t[3]))

\* C3, amended: inc_minor on v{a}.{b}.{c} returns exactly v{a}.{b+1}.{c}
\* when b and b+1 have at most MaxStrDigits digits, and fails with a
\* ParseError when one of them has more.
C3_MinorIncremented ==
    op = "inc-minor" =>
        \A t \in Parts(version) :
            result = IF Fits(t[2]) /\ Fits(Succ(t[2]))
                     THEN Return(VersionText(t[1], Succ(t[2]), t[3]))
                     ELSE ValueError

C3_Witness ==
    /\ op = "inc-minor"
    /\ version = <<"v", "3", ".", "4", ".", "5">>
    /\ result = Return(<<"v", "3", ".", "5", ".", "5">>)

\* An integer written in decimal: digits, after an optional sign.
IsDecimalInteger(f) ==
    LET d == IF f # <<>> /\ Head(f) \in {"+", "-"} THEN Tail(f) ELSE f
    IN  d # <<>> /\ \A i \in 1..Len(d) : IsDigit(d[i])

\* [v]a.b.c with integer fields.
IsIntegerVersion(s) ==
    \E i \in 1..Len(s) :
        /\ s[i] = "."
        /\ IsDecimalInteger(Bare(SubSeq(s, 1, i - 1)))
        /\ \E j \in (i + 1)..Len(s) :
               /\ s[j] = "."
               /\ IsDecimalInteger(SubSeq(s, i + 1, j - 1))
               /\ IsDecimalInteger(SubSeq(s, j + 1, Len(s)))

\* The number of digits of a field.
DigitCount(f) == Cardinality({i \in 1..Len(f) : IsDigit(f[i])})

\* C4, as stated: for each function and every a.b.c with integer fields,
\* the call on "a.b.c" and the call on "va.b.c" return the same string, and
\* that string begins with "v".
C4_PrefixOptionalAnyWidth ==
    Called /\ IsIntegerVersion(version) =>
        /\ result.ok
        /\ result = Apply(op, Bare(version))
        /\ result = Apply(op, Prefixed(version))
        /\ Head(result.value) = "v"

\* C4, amended: for each function and every a.b.c with integer fields, the
\* call on "a.b.c" and the call on "va.b.c" have the same outcome: the same
\* string, which begins with "v", when the incremented field has fewer than
\* MaxStrDigits digits, a ParseError from both when it has more, and one of
\* the two from both when it has exactly MaxStrDigits.  Every string a call
\* returns begins with "v".
C4_PrefixOptional ==
    /\ Called /\ IsIntegerVersion(version) =>
           /\ result = Apply(op, Bare(version))
           /\ result = Apply(op, Prefixed(version))
           /\ DigitCount(fields(version)[Target(op)]) < MaxStrDigits
              => result.ok
           /\ DigitCount(fields(version)[Target(op)]) > MaxStrDigits
              => result = ValueError
    /\ Called /\ result.ok => Head(result.value) = "v"

C4_Witness ==
    /\ op = "inc-patch"
    /\ version = <<"1", ".", "2", ".", "3">>
    /\ result = Return(<<"v", "1", ".", "2", ".", "4">>)
    /\ result = inc_patch(<<"v", "1", ".", "2", ".", "3">>)

\* C5: an input that does not split on "." into exactly three fields (two
\* or fewer, four or more) makes each function fail with a ParseError and
\* yield no output string.
C5_WrongFieldCountFails ==
    Called /\ CountOf(version, ".") # 2 => result = ValueError

C5_Witness ==
    /\ op = "inc-patch"
    /\ version = <<"v", "1", ".", "2">>
    /\ result = ValueError

\* The text int() takes for an integer, as a grammar: whitespace, an
\* optional sign, digits with single underscores between them, whitespace.
IsIntLiteral(f) ==
    \E i \in 1..Len(f) :
        /\ \A k \in 1..(i - 1) : f[k] \in Whitespace
        /\ f[i] \notin Whitespace
        /\ \E j \in i..Len(f) :
               /\ f[j] \notin Whitespace
               /\ \A k \in (j + 1)..Len(f) : f[k] \in Whitespace
               /\ LET first == IF f[i] \in {"+", "-"} THEN i + 1 ELSE i IN
                  /\ first <= j
                  /\ IsDigit(f[first])
                  /\ IsDigit(f[j])
                  /\ \A k \in first..j :
                         \/ IsDigit(f[k])
                         \/ /\ f[k] = "_"
                            /\ IsDigit(f[k - 1])
                            /\ IsDigit(f[k + 1])

\* C6, as stated: on a three-field input a call fails whenever the field it
\* increments is not a valid base-10 integer (an empty field, a field with
\* non-digit characters), and succeeds only when it is one.  It is stated
\* here for the inputs that have no whitespace around them and no "v"
\* inside, so that only the parsing of the field decides it.
C6_FailsUnlessDecimal ==
    /\ Called
    /\ Len(fields(version)) = 3
    /\ strip(version, Whitespace) = version
    /\ CountOf(Core(version), "v") = 0
    /\ result.ok
    => IsDecimalInteger(fields(version)[Target(op)])

\* C6, amended: on a three-field input a call fails whenever the field it
\* increments is not text int() takes for an integer, and succeeds only
\* when it is: decimal digits with an optional sign, which may be surrounded
\* by whitespace and may have single underscores between the digits.  It
\* fails as well when the field has more than MaxStrDigits digits, and
\* succeeds when it is such text of fewer than MaxStrDigits digits.
C6_FailsUnlessIntLiteral ==
    Called /\ Len(fields(version)) = 3 =>
        LET field == fields(version)[Target(op)] IN
        /\ result.ok => IsIntLiteral(field) /\ DigitCount(field) <= MaxStrDigits
        /\ IsIntLiteral(field) /\ DigitCount(field) < MaxStrDigits => result.ok

C6_Witness ==
    /\ op = "inc-patch"
    /\ version = <<"1", ".", "2", ".", " ", "-", "1">>
    /\ result = Return(<<"v", "1", ".", "2", ".", "0">>)

\* An integer as "{}".format renders it: ASCII digits, no padding, "-" only
\* before a number that is not zero.
IsPlainInteger(g) ==
    LET d == IF g # <<>> /\ Head(g) = "-" THEN Tail(g) ELSE g IN
    /\ d # <<>>
    /\ \A i \in 1..Len(d) : IsAsciiDigit(d[i])
    /\ Head(d) = "0" => d = g /\ Len(d) = 1

\* s is before \o g \o after with g a plain integer.
IsAround(s, before, after) ==
    /\ Len(before) + Len(after) <= Len(s)
    /\ IsPrefix(before, s)
    /\ IsSuffix(after, s)
    /\ IsPlainInteger(SubSeq(s, Len(before) + 1, Len(s) - Len(after)))

\* C7: the two fields that are not incremented appear in the output as
\* exactly the text they had in the input, with no reparsing or validation
\* (leading zeros and non-numeric text pass through), and the incremented
\* field is rendered as a plain integer without zero padding: inc_patch on
\* v01.02.003 returns v01.02.4.
C7_OtherFieldsVerbatim ==
    Called /\ result.ok =>
        LET f == fields(version) IN
        CASE op = "inc-patch" ->
                 IsAround(result.value,
                          <<"v">> \o f[1] \o Dot \o f[2] \o Dot, <<>>)
          [] op = "inc-minor" ->
                 IsAround(result.value,
                          <<"v">> \o f[1] \o Dot, Dot \o f[3])
          [] op = "inc-major" ->
                 IsAround(result.value,
                          <<"v">>, Dot \o f[2] \o Dot \o f[3])

C7_Witness ==
    /\ op = "inc-patch"
    /\ version = <<"v", "0", "1", ".", "0", "2", ".", "0", "0", "3">>
    /\ result = Return(<<"v", "0", "1", ".", "0", "2", ".", "4">>)

\* C8, as stated: every "v" is removed from anywhere in the input before it
\* is split, so an input with a "v" inside (1v.2.3, v1.v2.3) is handled as
\* the same input with every "v" deleted.  It is stated here for the inputs
\* that are a.b.c with integer fields once every "v" is deleted.
C8_EveryVRemoved ==
    Called /\ IsIntegerVersion(RemoveAll(version, {"v"})) =>
        result = Apply(op, RemoveAll(version, {"v"}))

\* C8, amended: "v" is removed only from the start and the end of the input
\* (every leading and every trailing "v"), not from its interior, before it
\* is split.  A "v" inside the input stays in its field: it makes the call
\* fail when the field is the incremented one, and it is copied to the
\* output otherwise, so a successful call's output holds the re-added prefix
\* and every interior "v" of the input.
C8_OnlyOuterVRemoved ==
    Called =>
        /\ result = Apply(op, Core(version))
        /\ result.ok =>
               CountOf(result.value, "v") = 1 + CountOf(Core(version), "v")
        /\ /\ Len(fields(version)) = 3
           /\ CountOf(fields(version)[Target(op)], "v") > 0
           => result = ValueError

C8_Witness ==
    /\ op = "inc-patch"
    /\ version = <<"v", "1", ".", "v", "2", ".", "3">>
    /\ result = Return(<<"v", "1", ".", "v", "2", ".", "4">>)

\* [v]a.b.c with natural components.
IsValidVersion(s) == Parts(Prefixed(s)) # {}

\* The whitespace before and after the rest of s.
LeadingSpace(s) == SubSeq(s, 1, Len(s) - Len(lstrip(s, Whitespace)))

TrailingSpace(s) == SubSeq(s, Len(rstrip(s, Whitespace)) + 1, Len(s))

\* C9, as stated: whitespace around the input is stripped before the "v" is
\* removed and the string is split, so a call on a valid version surrounded
\* by whitespace returns what the call on the version returns.
C9_WhitespaceStripped ==
    Called /\ IsValidVersion(strip(version, Whitespace)) =>
        result = Apply(op, strip(version, Whitespace))

\* C9, amended: whitespace around the input is not stripped; it stays in
\* the first or the last field.  There it is ignored when the field is the
\* incremented one (int() skips it) and copied to the output otherwise.  So
\* for a valid version s: with whitespace after s, inc_patch returns what it
\* returns on s, and inc_minor and inc_major return that followed by the
\* whitespace; with whitespace before s, the "v" prefix of s is not
\* stripped, inc_major fails when s has the prefix and returns what it
\* returns on s when s has none, and inc_patch and inc_minor keep the
\* whitespace, and the prefix of s, after the re-added "v".  A call that
\* fails on s fails with the whitespace too.
C9_WhitespaceKept ==
    Called /\ IsValidVersion(strip(version, Whitespace)) =>
        LET s == strip(version, Whitespace)
            before == LeadingSpace(version)
            after == TrailingSpace(version)
            unstripped == IF before # <<>> /\ Head(s) = "v"
                          THEN before \o <<"v">> ELSE before
            plain == Apply(op, s)
        IN  IF ~plain.ok THEN result = ValueError
            ELSE CASE op = "inc-patch" ->
                     result = Return(<<"v">> \o unstripped
                                     \o Tail(plain.value))
              [] op = "inc-minor" ->
                     result = Return(<<"v">> \o unstripped
                                     \o Tail(plain.value) \o after)
              [] op = "inc-major" ->
                     result = IF before # <<>> /\ Head(s) = "v"
                              THEN ValueError
                              ELSE Return(plain.value \o after)

C9_Witness ==
    /\ op = "inc-minor"
    /\ version = <<"v", "1", ".", "2", ".", "3", "\n">>
    /\ result = Return(<<"v", "1", ".", "3", ".", "3", "\n">>)

\* What a chain of calls makes of the components <<a, b, c>>.
Chained(t) ==
    <<Plus(t[1], calls["inc-major"]), Plus(t[2], calls["inc-minor"]),
      Plus(t[3], calls["inc-patch"])>>

\* C10, as stated: the output of a call on a valid input is a valid input,
\* and the calls commute: after any sequence of calls on v{a}.{b}.{c}, each
\* fed the output before it, the result is v{a+i}.{b+j}.{c+k} with i, j, k
\* the numbers of inc_major, inc_minor and inc_patch calls, in whatever
\* order.
C10_CallsCommuteAnyWidth ==
    Called =>
        \A t \in Parts(input) :
            LET now == Chained(t) IN
            result = Return(VersionText(now[1], now[2], now[3]))

\* C10, amended: the same, as long as every component a call increments has
\* at most MaxStrDigits digits before and after the call; a call that meets
\* a longer component fails with a ParseError, and the chain ends there.
C10_CallsCommute ==
    Called =>
        \A t \in Parts(input) :
            LET now == Chained(t) IN
            result = IF Fits(now[Target(op)])
                     THEN Return(VersionText(now[1], now[2], now[3]))
                     ELSE ValueError

C10_Witness ==
    /\ input = <<"v", "1", ".", "2", ".", "9">>
    /\ calls = [name \in Commands |-> 1]
    /\ op = "inc-major"
    /\ result = Return(<<"v", "2", ".", "3", ".", "1", "0">>)

====
